---- MODULE Spec2Model ----
(***************************************************************************)
(* OCR benchmark harness (benchmark_ocr.py) and its evaluation metrics     *)
(* (src/eval_metrics/ocr_metrics.py).                                      *)
(*                                                                         *)
(* Python strings are sequences of one-character strings.  Python floats   *)
(* that hold scores, means and rates are exact rationals [num, den] in     *)
(* lowest terms; latencies are whole clock ticks.                          *)
(***************************************************************************)
EXTENDS Integers, Sequences, FiniteSets, Bags, TLC

(***************************************************************************)
(* Exact rationals standing for the float results.                         *)
(***************************************************************************)
Abs(x) == IF x < 0 THEN -x ELSE x

RECURSIVE GCD(_, _)
GCD(a, b) == IF b = 0 THEN a ELSE GCD(b, a % b)

Rat(n, d) ==
    LET g == GCD(Abs(n), Abs(d))
        s == IF d < 0 THEN -1 ELSE 1
    IN  [num |-> (s * n) \div g, den |-> (s * d) \div g]

Zero == [num |-> 0, den |-> 1]
One == [num |-> 1, den |-> 1]
RAdd(x, y) == Rat(x.num * y.den + y.num * x.den, x.den * y.den)
RSub(x, y) == Rat(x.num * y.den - y.num * x.den, x.den * y.den)
RMul(x, y) == Rat(x.num * y.num, x.den * y.den)
RDiv(x, y) == Rat(x.num * y.den, x.den * y.num)
RLess(x, y) == x.num * y.den < y.num * x.den
RLeq(x, y) == x.num * y.den <= y.num * x.den
RMax(x, y) == IF RLess(x, y) THEN y ELSE x

(***************************************************************************)
(* str methods used by the metrics.                                        *)
(***************************************************************************)
UpperLetters == <<"A","B","C","D","E","F","G","H","I","J","K","L","M",
                  "N","O","P","Q","R","S","T","U","V","W","X","Y","Z">>
LowerLetters == <<"a","b","c","d","e","f","g","h","i","j","k","l","m",
                  "n","o","p","q","r","s","t","u","v","w","x","y","z">>

\* str.lower() on one character
lower_char(c) ==
    IF \E i \in 1..26 : UpperLetters[i] = c
    THEN LowerLetters[CHOOSE i \in 1..26 : UpperLetters[i] = c]
    ELSE c

\* str.lower()
lower(s) == [i \in 1..Len(s) |-> lower_char(s[i])]

\* the characters str.strip() and str.split() treat as whitespace
IsSpace(c) == c \in {" ", "\n", "\t", "\r"}

RECURSIVE lstrip(_)
lstrip(s) == IF s # <<>> /\ IsSpace(Head(s)) THEN lstrip(Tail(s)) ELSE s

RECURSIVE rstrip(_)
rstrip(s) ==
    IF s # <<>> /\ IsSpace(s[Len(s)]) THEN rstrip(SubSeq(s, 1, Len(s) - 1)) ELSE s

\* str.strip()
strip(s) == rstrip(lstrip(s))

\* str.replace("\n", " ")
replace_newline(s) == [i \in 1..Len(s) |-> IF s[i] = "\n" THEN " " ELSE s[i]]

\* the Python test `sub in s` on strings
contains(sub, s) ==
    \E i \in 0..(Len(s) - Len(sub)) : SubSeq(s, i + 1, i + Len(sub)) = sub

\* str.split(): the maximal runs of non-whitespace characters, in order
RECURSIVE split_from(_, _, _)
split_from(s, i, word) ==
    IF i > Len(s) THEN (IF word = <<>> THEN <<>> ELSE <<word>>)
    ELSE IF IsSpace(s[i])
         THEN (IF word = <<>> THEN <<>> ELSE <<word>>) \o split_from(s, i + 1, <<>>)
         ELSE split_from(s, i + 1, Append(word, s[i]))

split(s) == split_from(s, 1, <<>>)

\* set(list)
set_of(seq) == {seq[i] : i \in 1..Len(seq)}

\* str(n) for a non-negative int
Digits == <<"0","1","2","3","4","5","6","7","8","9">>

RECURSIVE str_int(_)
str_int(n) == IF n < 10 THEN <<Digits[n + 1]>> ELSE Append(str_int(n \div 10), Digits[(n % 10) + 1])

Min2(a, b) == IF a < b THEN a ELSE b
Max2(a, b) == IF a > b THEN a ELSE b

(***************************************************************************)
(* Similarity primitives and metric functions (ocr_metrics.py).            *)
(***************************************************************************)

\* A box coordinate is [kind, n]: the int n, the float n/2, or a string that
\* is not a number.
IntCoord(n) == [kind |-> "int", n |-> n]
FloatCoord(halves) == [kind |-> "float", n |-> halves]
StrCoord == [kind |-> "str", n |-> 0]

\* a coordinate that is not a number read as 0 instead of raising
int_of_lenient(coordinate) ==
    IF coordinate.kind = "int" THEN [raised |-> FALSE, value |-> coordinate.n]
    ELSE IF coordinate.kind = "float"
    THEN [raised |-> FALSE,
          value |-> IF coordinate.n >= 0 THEN coordinate.n \div 2
                    ELSE -((-coordinate.n) \div 2)]
    ELSE [raised |-> FALSE, value |-> 0]

\* int(coordinate): truncation toward zero; [raised, value]
int_of(coordinate) ==
    IF coordinate.kind = "int" THEN [raised |-> FALSE, value |-> coordinate.n]
    ELSE IF coordinate.kind = "float"
    THEN [raised |-> FALSE,
          value |-> IF coordinate.n >= 0 THEN coordinate.n \div 2
                    ELSE -((-coordinate.n) \div 2)]
    ELSE [raised |-> TRUE, value |-> 0]

\* the intersection area without the clamp to 0 of width and height
inter_area_unclamped(x1_inter, y1_inter, x2_inter, y2_inter) ==
    (x2_inter - x1_inter) * (y2_inter - y1_inter)

\* max(0, x2_inter - x1_inter) * max(0, y2_inter - y1_inter)
inter_area_of(x1_inter, y1_inter, x2_inter, y2_inter) ==
    Max2(0, x2_inter - x1_inter) * Max2(0, y2_inter - y1_inter)

calculate_iou(box1_in, box2_in) ==
    IF \/ \E i \in 1..Len(box1_in) : int_of(box1_in[i]).raised
       \/ \E i \in 1..Len(box2_in) : int_of(box2_in[i]).raised
    THEN Zero
    ELSE
      LET box1 == [i \in 1..Len(box1_in) |-> int_of(box1_in[i]).value]
          box2 == [i \in 1..Len(box2_in) |-> int_of(box2_in[i]).value]
          x1_inter == Max2(box1[1], box2[1])
          y1_inter == Max2(box1[2], box2[2])
          x2_inter == Min2(box1[3], box2[3])
          y2_inter == Min2(box1[4], box2[4])
          inter_area == inter_area_of(x1_inter, y1_inter, x2_inter, y2_inter)
          box1_area == (box1[3] - box1[1]) * (box1[4] - box1[2])
          box2_area == (box2[3] - box2[1]) * (box2[4] - box2[2])
          union_area == box1_area + box2_area - inter_area
      IN  IF union_area # 0 THEN Rat(inter_area, union_area) ELSE Zero

\* the inner loop of levenshtein_distance over s1 for one character c2 of
\* s2: row is the list distances_, which has i1 entries at index i1 (from 1)
lev_row[s1 \in Seq(STRING), c2 \in STRING, distances \in Seq(Int), row \in Seq(Int)] ==
    IF Len(row) > Len(s1) THEN row
    ELSE lev_row[s1, c2, distances,
                 Append(row,
                        IF s1[Len(row)] = c2
                        THEN distances[Len(row)]
                        ELSE 1 + Min2(Min2(distances[Len(row)], distances[Len(row) + 1]),
                                      row[Len(row)]))]

\* the outer loop over s2 from its i2-th character on
lev_rows[s1 \in Seq(STRING), s2 \in Seq(STRING), i2 \in Int, distances \in Seq(Int)] ==
    IF i2 > Len(s2) THEN distances
    ELSE lev_rows[s1, s2, i2 + 1, lev_row[s1, s2[i2], distances, <<i2>>]]

\* the distance between the lower-cased strings
levenshtein_distance_lowered(a, b) ==
    LET s1 == IF Len(a) > Len(b) THEN lower(b) ELSE lower(a)
        s2 == IF Len(a) > Len(b) THEN lower(a) ELSE lower(b)
        distances == lev_rows[s1, s2, 1, [i \in 1..(Len(s1) + 1) |-> i - 1]]
    IN  distances[Len(distances)]

\* the distance read from the first cell of the last row instead of the last
levenshtein_distance_first_cell(a, b) ==
    LET s1 == IF Len(a) > Len(b) THEN b ELSE a
        s2 == IF Len(a) > Len(b) THEN a ELSE b
        distances == lev_rows[s1, s2, 1, [i \in 1..(Len(s1) + 1) |-> i - 1]]
    IN  distances[1]

levenshtein_distance(a, b) ==
    LET s1 == IF Len(a) > Len(b) THEN b ELSE a
        s2 == IF Len(a) > Len(b) THEN a ELSE b
        distances == lev_rows[s1, s2, 1, [i \in 1..(Len(s1) + 1) |-> i - 1]]
    IN  distances[Len(distances)]

\* the reference length below which calculate_anls uses containment
AnlsShortWords == 5

\* the similarity taken relative to the answer's length alone, without the floor
anls_relative_to_answer(prediction, answer) ==
    IF Len(split(answer)) < AnlsShortWords
    THEN (IF contains(answer, prediction) THEN One ELSE Zero)
    ELSE RSub(One, Rat(levenshtein_distance(prediction, answer), Len(answer)))

\* containment used up to and including AnlsShortWords words
anls_short_inclusive(prediction, answer) ==
    IF Len(split(answer)) <= AnlsShortWords
    THEN (IF contains(answer, prediction) THEN One ELSE Zero)
    ELSE RMax(Zero,
              IF Max2(Len(prediction), Len(answer)) = 0 THEN Zero
              ELSE RSub(One, Rat(levenshtein_distance(prediction, answer),
                                 Max2(Len(prediction), Len(answer)))))

\* calculate_anls after its first two lines: both strings are normalised
anls_of_normalised(prediction, answer) ==
    IF Len(split(answer)) < AnlsShortWords
    THEN (IF contains(answer, prediction) THEN One ELSE Zero)
    ELSE RMax(Zero,
              IF Max2(Len(prediction), Len(answer)) = 0 THEN Zero
              ELSE RSub(One, Rat(levenshtein_distance(prediction, answer),
                                 Max2(Len(prediction), Len(answer)))))

calculate_anls(prediction, answer) ==
    anls_of_normalised(replace_newline(strip(lower(prediction))),
                       replace_newline(strip(lower(answer))))

calculate_bleu_score(prediction, reference) ==
    LET pred_words == split(lower(prediction))
        ref_words == split(lower(reference))
        pred_set == set_of(pred_words)
        ref_set == set_of(ref_words)
    IN  IF pred_words = <<>> \/ ref_words = <<>> THEN Zero
        ELSE IF Cardinality(pred_set) = 0 THEN Zero
        ELSE Rat(Cardinality(pred_set \cap ref_set), Cardinality(pred_set))

\* the function without its first test: two empty sets fall into the 0.0 branch
calculate_f_measure_no_vacuous(prediction, reference) ==
    LET pred_words == set_of(split(lower(prediction)))
        ref_words == set_of(split(lower(reference)))
        intersection == Cardinality(pred_words \cap ref_words)
        precision == IF pred_words # {} THEN Rat(intersection, Cardinality(pred_words)) ELSE Zero
        recall == IF ref_words # {} THEN Rat(intersection, Cardinality(ref_words)) ELSE Zero
    IN  IF pred_words = {} \/ ref_words = {} THEN Zero
        ELSE IF RAdd(precision, recall) = Zero THEN Zero
        ELSE RDiv(RMul(Rat(2, 1), RMul(precision, recall)), RAdd(precision, recall))

calculate_f_measure(prediction, reference) ==
    LET pred_words == set_of(split(lower(prediction)))
        ref_words == set_of(split(lower(reference)))
        intersection == Cardinality(pred_words \cap ref_words)
        precision == IF pred_words # {} THEN Rat(intersection, Cardinality(pred_words)) ELSE Zero
        recall == IF ref_words # {} THEN Rat(intersection, Cardinality(ref_words)) ELSE Zero
    IN  IF pred_words = {} /\ ref_words = {} THEN One
        ELSE IF pred_words = {} \/ ref_words = {} THEN Zero
        ELSE IF RAdd(precision, recall) = Zero THEN Zero
        ELSE RDiv(RMul(Rat(2, 1), RMul(precision, recall)), RAdd(precision, recall))

table_tag_names == <<<<"t","a","b","l","e">>, <<"t","r">>, <<"t","d">>, <<"t","h">>>>

has_prefix_at(s, i, w) ==
    i + Len(w) - 1 <= Len(s) /\ SubSeq(s, i, i + Len(w) - 1) = w

\* re.findall(r'<(/?(?:table|tr|td|th))[^>]*>', s): scan from position i
RECURSIVE find_table_tags(_, _)
find_table_tags(s, i) ==
    IF i > Len(s) THEN <<>>
    ELSE
      LET slash == s[i] = "<" /\ i + 1 <= Len(s) /\ s[i + 1] = "/"
          k == IF slash THEN i + 2 ELSE i + 1
          names == {n \in 1..Len(table_tag_names) : has_prefix_at(s, k, table_tag_names[n])}
          name == table_tag_names[CHOOSE n \in names : \A m \in names : n <= m]
          closers == {m \in (k + Len(name))..Len(s) : s[m] = ">"}
          close == CHOOSE m \in closers : \A m2 \in closers : m <= m2
      IN  IF s[i] = "<" /\ names # {} /\ closers # {}
          THEN <<(IF slash THEN <<"/">> ELSE <<>>) \o name>> \o find_table_tags(s, close + 1)
          ELSE find_table_tags(s, i + 1)

extract_table_structure(html_str) ==
    IF html_str = <<>> THEN <<>> ELSE find_table_tags(lower(html_str), 1)

\* the empty reference tested before the equality of the two tag sequences
simple_teds_score_empty_first(pred_html, gt_html) ==
    LET pred_structure == extract_table_structure(pred_html)
        gt_structure == extract_table_structure(gt_html)
        pred_set == set_of(pred_structure)
        gt_set == set_of(gt_structure)
        intersection == Cardinality(pred_set \cap gt_set)
        union == Cardinality(pred_set \cup gt_set)
    IN  IF Cardinality(gt_set) = 0 THEN Zero
        ELSE IF pred_structure = gt_structure THEN One
        ELSE IF union > 0 THEN Rat(intersection, union) ELSE Zero

simple_teds_score(pred_html, gt_html) ==
    LET pred_structure == extract_table_structure(pred_html)
        gt_structure == extract_table_structure(gt_html)
        pred_set == set_of(pred_structure)
        gt_set == set_of(gt_structure)
        intersection == Cardinality(pred_set \cap gt_set)
        union == Cardinality(pred_set \cup gt_set)
    IN  IF pred_structure = gt_structure THEN One
        ELSE IF Cardinality(gt_set) = 0 THEN Zero
        ELSE IF union > 0 THEN Rat(intersection, union) ELSE Zero

(***************************************************************************)
(* A reference answer is a str or an int: [kind, s, n].                    *)
(***************************************************************************)
StrAns(s) == [kind |-> "str", s |-> s, n |-> 0]
NumAns(n) == [kind |-> "num", s |-> <<>>, n |-> n]

\* str(answer)
str_of(answer) == IF answer.kind = "num" THEN str_int(answer.n) ELSE answer.s

\* the loop with the test `answer in prediction` alone
RECURSIVE text_matching_one_way(_, _, _)
text_matching_one_way(prediction, answers, i) ==
    IF i > Len(answers) THEN [raised |-> FALSE, value |-> FALSE]
    ELSE IF answers[i].kind = "num" THEN [raised |-> TRUE, value |-> FALSE]
    ELSE IF contains(strip(lower(answers[i].s)), prediction)
         THEN [raised |-> FALSE, value |-> TRUE]
         ELSE text_matching_one_way(prediction, answers, i + 1)

\* evaluate_text_matching from the i-th answer on.  answer.lower() on an int
\* raises AttributeError, which nothing in the function catches.
RECURSIVE text_matching_from(_, _, _)
text_matching_from(prediction, answers, i) ==
    IF i > Len(answers) THEN [raised |-> FALSE, value |-> FALSE]
    ELSE IF answers[i].kind = "num" THEN [raised |-> TRUE, value |-> FALSE]
    ELSE IF \/ contains(strip(lower(answers[i].s)), prediction)
            \/ contains(prediction, strip(lower(answers[i].s)))
         THEN [raised |-> FALSE, value |-> TRUE]
         ELSE text_matching_from(prediction, answers, i + 1)

evaluate_text_matching(prediction, answers) ==
    text_matching_from(strip(lower(prediction)), answers, 1)

\* the acceptance threshold of evaluate_vqa_score, as the rational 1/2
VqaThreshold == [num |-> 1, den |-> 2]

\* the loop without the test anls_score >= 0.5
RECURSIVE vqa_score_no_threshold(_, _, _, _)
vqa_score_no_threshold(prediction, answers, i, max_score) ==
    IF i > Len(answers) THEN max_score
    ELSE LET anls_score == calculate_anls(prediction, str_of(answers[i]))
         IN  vqa_score_no_threshold(prediction, answers, i + 1,
                 IF RLess(max_score, anls_score) THEN anls_score ELSE max_score)

RECURSIVE vqa_score_from(_, _, _, _)
vqa_score_from(prediction, answers, i, max_score) ==
    IF i > Len(answers) THEN max_score
    ELSE LET anls_score == calculate_anls(prediction, str_of(answers[i]))
         IN  vqa_score_from(prediction, answers, i + 1,
                 IF RLeq(VqaThreshold, anls_score) /\ RLess(max_score, anls_score)
                 THEN anls_score ELSE max_score)

evaluate_vqa_score(prediction, answers) == vqa_score_from(prediction, answers, 1, Zero)


(***************************************************************************)
(* Sample evaluator (evaluate_sample).                                     *)
(***************************************************************************)
vqa_tasks == <<
    <<"a","p","p"," ","a","g","e","n","t">>,
    <<"a","s","c","i","i"," ","a","r","t">>,
    <<"m","a","t","h"," ","q","a">>,
    <<"r","e","a","s","o","n","i","n","g"," ","v","q","a">>,
    <<"s","c","i","e","n","c","e"," ","q","a">>,
    <<"t","e","x","t"," ","r","e","c","o","g","n","i","t","i","o","n">>,
    <<"d","o","c","u","m","e","n","t"," ","c","l","a","s","s","i","f","i","c","a","t","i","o","n">>,
    <<"c","o","g","n","i","t","i","o","n"," ","v","q","a">>,
    <<"d","i","a","g","r","a","m"," ","q","a">>
>>

ocr_tasks == <<
    <<"f","u","l","l","-","p","a","g","e"," ","o","c","r">>,
    <<"h","a","n","d","w","r","i","t","t","e","n"," ","a","n","s","w","e","r"," ","e","x","t","r","a","c","t","i","o","n">>,
    <<"k","e","y"," ","i","n","f","o","r","m","a","t","i","o","n"," ","e","x","t","r","a","c","t","i","o","n">>,
    <<"t","e","x","t"," ","t","r","a","n","s","l","a","t","i","o","n">>,
    <<"f","o","r","m","u","l","a"," ","r","e","c","o","g","n","i","t","i","o","n">>
>>

positioning_tasks == <<
    <<"t","e","x","t"," ","g","r","o","u","n","d","i","n","g">>,
    <<"v","q","a"," ","w","i","t","h"," ","p","o","s","i","t","i","o","n">>,
    <<"t","e","x","t"," ","s","p","o","t","t","i","n","g">>
>>

table_types == <<
    <<"t","a","b","l","e"," ","p","a","r","s","i","n","g"," ","e","n">>,
    <<"t","a","b","l","e"," ","p","a","r","s","i","n","g"," ","c","n">>
>>

agent == <<"a","g","e","n","t">>

\* the task names looked up in the type as given, not lower-cased
any_task_in_cased(tasks, sample_type) ==
    \E i \in 1..Len(tasks) : contains(tasks[i], sample_type)

any_task_in(tasks, sample_type) ==
    \E i \in 1..Len(tasks) : contains(tasks[i], lower(sample_type))

\* str of the last answer
last_answer_of(answers) ==
    IF answers # <<>> THEN str_of(answers[Len(answers)]) ELSE <<>>

\* str(answers[0]) if answers else ""
first_answer_of(answers) ==
    IF answers # <<>> THEN str_of(answers[1]) ELSE <<>>

\* the table types looked up as substrings of the lower-cased type
teds_applies_by_substring(sample_type) == any_task_in(table_types, sample_type)

\* sample_type in ['table parsing en', 'table parsing cn']
teds_applies(sample_type) ==
    \E i \in 1..Len(table_types) : sample_type = table_types[i]

\* the condition on the task type alone
iou_applies_by_type(sample) ==
    \/ any_task_in(positioning_tasks, sample.type)
    \/ contains(agent, lower(sample.type))

\* any(task in sample_type.lower() for task in positioning_tasks)
\*     or 'agent' in sample_type.lower() or bbox or bbox_list
iou_applies(sample) ==
    \/ any_task_in(positioning_tasks, sample.type)
    \/ contains(agent, lower(sample.type))
    \/ sample.bbox # <<>>
    \/ sample.bbox_list # <<>>

\* the defaults with text_match preset to 1.0
ScoresPresetMatch ==
    [text_match |-> One, teds |-> Zero, iou |-> Zero, vqa_anls |-> Zero,
     bleu |-> Zero, f_measure |-> Zero, avg_anls |-> Zero]

ZeroScores ==
    [text_match |-> Zero, teds |-> Zero, iou |-> Zero, vqa_anls |-> Zero,
     bleu |-> Zero, f_measure |-> Zero, avg_anls |-> Zero]

\* A Sample is [predict, answers, type, bbox, bbox_list, content]; a bbox or
\* bbox_list that is None or empty is <<>>.  The result is [raised, scores]:
\* raised when an exception leaves evaluate_sample.
evaluate_sample(sample) ==
    LET prediction == sample.predict
        answers == sample.answers
        sample_type == sample.type
        matched == evaluate_text_matching(prediction, answers)
        text_match == IF matched.value THEN One ELSE Zero
        first_answer == first_answer_of(answers)
        is_ocr == any_task_in(ocr_tasks, sample_type) /\ first_answer # <<>>
    IN  IF answers = <<>> THEN [raised |-> FALSE, scores |-> ZeroScores]
        ELSE IF matched.raised THEN [raised |-> TRUE, scores |-> ZeroScores]
        ELSE [raised |-> FALSE,
              scores |->
                [text_match |-> text_match,
                 vqa_anls |-> IF any_task_in(vqa_tasks, sample_type)
                              THEN evaluate_vqa_score(prediction, answers) ELSE Zero,
                 bleu |-> IF is_ocr THEN calculate_bleu_score(prediction, first_answer) ELSE Zero,
                 f_measure |-> IF is_ocr THEN calculate_f_measure(prediction, first_answer) ELSE Zero,
                 avg_anls |-> IF first_answer # <<>>
                              THEN calculate_anls(prediction, first_answer) ELSE Zero,
                 teds |-> IF teds_applies(sample_type) /\ first_answer # <<>>
                          THEN simple_teds_score(prediction, first_answer) ELSE Zero,
                 iou |-> IF iou_applies(sample) THEN text_match ELSE Zero]]


(***************************************************************************)
(* Per-sample task (NovaOCRBenchmark.call_nova_ocr, process_sample).       *)
(*                                                                         *)
(* The oracle's answer to a call is [kind, text, ttft, end_to_end, error]: *)
(* kind "ok" is a returned response, "error" an exception raised inside    *)
(* call_nova_ocr's try block, "hang" a call that never returns.            *)
(***************************************************************************)
\* call_nova_ocr with an except branch that loses the failure flag
call_nova_ocr_flag_lost(outcome) ==
    [prediction |-> IF outcome.kind = "ok" THEN outcome.text ELSE <<>>,
     ttft |-> IF outcome.kind = "ok" THEN outcome.ttft ELSE 0,
     end_to_end |-> outcome.end_to_end, api_success |-> TRUE, error |-> outcome.error]

call_nova_ocr(outcome) ==
    IF outcome.kind = "ok"
    THEN [prediction |-> outcome.text, ttft |-> outcome.ttft,
          end_to_end |-> outcome.end_to_end, api_success |-> TRUE, error |-> ""]
    ELSE [prediction |-> <<>>, ttft |-> 0,
          end_to_end |-> outcome.end_to_end, api_success |-> FALSE,
          error |-> outcome.error]

\* the dict process_sample returns, from the call's result and the scores
result_record(sample, result, scores) ==
    [id |-> sample.id, type |-> sample.type, answers |-> sample.answers,
     predict |-> result.prediction, api_success |-> result.api_success,
     text_match |-> RLess(Zero, scores.text_match),
     teds_score |-> scores.teds, iou_score |-> scores.iou,
     vqa_anls |-> scores.vqa_anls, bleu_score |-> scores.bleu,
     f_measure |-> scores.f_measure, avg_anls |-> scores.avg_anls,
     error |-> result.error, ttft |-> result.ttft,
     end_to_end |-> result.end_to_end]

eval_sample_of(sample, result) ==
    [predict |-> result.prediction, answers |-> sample.answers, type |-> sample.type,
     bbox |-> sample.bbox, bbox_list |-> sample.bbox_list, content |-> sample.content]

\* process_sample after the oracle call: the future's outcome [raised, result]
\* from what evaluate_sample did.  An exception leaving evaluate_sample
\* leaves process_sample too.
task_outcome(sample, result, evaluated) ==
    [raised |-> evaluated.raised,
     result |-> result_record(sample, result, evaluated.scores)]

scored(sample, result) ==
    task_outcome(sample, result, evaluate_sample(eval_sample_of(sample, result)))

process_sample(sample, outcome) == scored(sample, call_nova_ocr(outcome))

(***************************************************************************)
(* Sample collection (run_benchmark, the loop over the dataset).           *)
(***************************************************************************)
EmptyDict == [k \in {} |-> 0]

count_task(task_counts, sample_type) ==
    IF sample_type \in DOMAIN task_counts
    THEN [task_counts EXCEPT ![sample_type] = @ + 1]
    ELSE task_counts @@ (sample_type :> 1)

\* the loop from the i-th dataset sample on; acc is [samples, task_counts];
\* a task_filter that is None or '' is <<>>
RECURSIVE collect_from(_, _, _, _, _)
collect_from(ds, limit, filter, i, acc) ==
    IF i > Len(ds) THEN acc
    ELSE IF filter # <<>> /\ ~contains(lower(filter), lower(ds[i].type))
         THEN collect_from(ds, limit, filter, i + 1, acc)
         ELSE IF Len(acc.samples) + 1 >= limit
              THEN [samples |-> Append(acc.samples, ds[i]),
                    task_counts |-> count_task(acc.task_counts, ds[i].type)]
              ELSE collect_from(ds, limit, filter, i + 1,
                        [samples |-> Append(acc.samples, ds[i]),
                         task_counts |-> count_task(acc.task_counts, ds[i].type)])

collect_samples(ds, limit, filter) ==
    collect_from(ds, limit, filter, 1, [samples |-> <<>>, task_counts |-> EmptyDict])

(***************************************************************************)
(* Statistics (run_benchmark, after the pool is drained).                  *)
(***************************************************************************)
NA == [na |-> TRUE]
ZeroDivisionError == [raised |-> "ZeroDivisionError"]

\* Python's x / n for a number x and a count n
true_div(x, n) == IF n = 0 THEN ZeroDivisionError ELSE RDiv(x, Rat(n, 1))

\* sum() of a list of rationals: a left fold from 0
RECURSIVE py_sum(_)
py_sum(s) ==
    IF s = <<>> THEN Zero ELSE RAdd(py_sum(SubSeq(s, 1, Len(s) - 1)), s[Len(s)])

\* sum() of a list of ints
RECURSIVE int_sum(_)
int_sum(s) == IF s = <<>> THEN 0 ELSE int_sum(SubSeq(s, 1, Len(s) - 1)) + s[Len(s)]

\* insertion of x into an ascending list, after the entries equal to it
RECURSIVE insert_sorted(_, _)
insert_sorted(s, x) ==
    IF s = <<>> THEN <<x>>
    ELSE IF s[Len(s)] <= x THEN Append(s, x)
         ELSE Append(insert_sorted(SubSeq(s, 1, Len(s) - 1), x), s[Len(s)])

\* the list left as it is
unsorted(s) == s

\* sorted() of a list of ints
RECURSIVE sorted(_)
sorted(s) ==
    IF s = <<>> THEN <<>> ELSE insert_sorted(sorted(SubSeq(s, 1, Len(s) - 1)), s[Len(s)])

\* the comprehension without its test of r['api_success']
positive_scores_any_call(results, key) ==
    LET kept == SelectSeq(results, LAMBDA r : RLess(Zero, r[key]))
    IN  [i \in 1..Len(kept) |-> kept[i][key]]

\* [r[key] for r in results if r['api_success'] and r[key] > 0]
positive_scores(results, key) ==
    LET kept == SelectSeq(results, LAMBDA r : r.api_success /\ RLess(Zero, r[key]))
    IN  [i \in 1..Len(kept) |-> kept[i][key]]

\* the mean without its test for an empty list
mean_unguarded(scores) == true_div(py_sum(scores), Len(scores))

\* sum(scores) / len(scores) if scores else "N/A"
mean_or_na(scores) ==
    IF scores # <<>> THEN true_div(py_sum(scores), Len(scores)) ELSE NA

\* int(n * 0.95) and int(n * 0.99)
P95Percent == 95
P99Percent == 99

\* the rank counted from the last index instead of from the length
rank_index_from_last(n, percent) == ((n - 1) * percent) \div 100

rank_index(n, percent) == (n * percent) \div 100

Statistics(results) ==
    LET api_success == SelectSeq(results, LAMBDA r : r.api_success)
        api_failed == SelectSeq(results, LAMBDA r : ~r.api_success)
        text_correct == SelectSeq(results, LAMBDA r : r.text_match)
        ttft_times == [i \in 1..Len(api_success) |-> api_success[i].ttft]
        e2e_times == [i \in 1..Len(api_success) |-> api_success[i].end_to_end]
    IN  IF api_success # <<>>
        THEN [total_samples |-> Len(results),
              api_success |-> Len(api_success),
              api_failed |-> Len(api_failed),
              text_correct |-> Len(text_correct),
              api_success_rate |-> true_div(Rat(Len(api_success) * 100, 1), Len(results)),
              text_accuracy |-> true_div(Rat(Len(text_correct) * 100, 1), Len(results)),
              avg_teds |-> mean_or_na(positive_scores(results, "teds_score")),
              avg_iou |-> mean_or_na(positive_scores(results, "iou_score")),
              avg_vqa_anls |-> mean_or_na(positive_scores(results, "vqa_anls")),
              avg_bleu |-> mean_or_na(positive_scores(results, "bleu_score")),
              avg_f_measure |-> mean_or_na(positive_scores(results, "f_measure")),
              avg_anls |-> mean_or_na(positive_scores(results, "avg_anls")),
              avg_ttft |-> true_div(Rat(int_sum(ttft_times), 1), Len(ttft_times)),
              avg_e2e |-> true_div(Rat(int_sum(e2e_times), 1), Len(e2e_times)),
              p50_e2e |-> sorted(e2e_times)[(Len(e2e_times) \div 2) + 1],
              p95_e2e |-> sorted(e2e_times)[rank_index(Len(e2e_times), P95Percent) + 1],
              p99_e2e |-> sorted(e2e_times)[rank_index(Len(e2e_times), P99Percent) + 1]]
        ELSE [total_samples |-> Len(results),
              api_success |-> 0,
              api_failed |-> Len(api_failed),
              text_correct |-> 0,
              api_success_rate |-> Zero,
              text_accuracy |-> Zero,
              avg_teds |-> NA, avg_iou |-> NA, avg_vqa_anls |-> NA,
              avg_bleu |-> NA, avg_f_measure |-> NA, avg_anls |-> NA,
              avg_ttft |-> Zero, avg_e2e |-> Zero,
              p50_e2e |-> 0, p95_e2e |-> 0, p99_e2e |-> 0]

\* the statistics whose value comes out of a division
DividedKeys ==
    {"api_success_rate", "text_accuracy", "avg_teds", "avg_iou", "avg_vqa_anls",
     "avg_bleu", "avg_f_measure", "avg_anls", "avg_ttft", "avg_e2e"}

\* whether computing the statistics raised
statistics_raised(st) ==
    \E k \in DividedKeys \cap DOMAIN st : st[k] = ZeroDivisionError


(***************************************************************************)
(* The benchmark run (NovaOCRBenchmark.run_benchmark) as a state machine.  *)
(***************************************************************************)
VARIABLES
    dataset,      \* the rows the dataset iterator yields, in order
    num_samples,  \* the sample-count limit
    task_filter,  \* the task-type filter; <<>> when None or ''
    oracle,       \* sample id -> what the model endpoint does with its call
    pc,           \* where run_benchmark is
    samples,      \* the collected samples
    task_counts,  \* the dict task type -> number of collected samples
    queue,        \* the executor's work queue: submitted, not yet started
    running,      \* the bag of samples whose task a worker thread is running
    completed,    \* finished futures as_completed has not yielded yet, oldest first
    results,      \* the list results
    calls,        \* the bag of sample ids the oracle was called with
    stats,        \* the dict stats
    evaluating,   \* the Sample a direct call of evaluate_sample is given
    evaluated,    \* what that call did: [raised, scores]
    metric_call,  \* a direct call of one metric function: [fn, its arguments]
    metric_result \* what that call did: [raised, value]

runvars == <<dataset, num_samples, task_filter, oracle, pc, samples, task_counts,
             queue, running, completed, results, calls, stats>>
evalvars == <<evaluating, evaluated>>
metricvars == <<metric_call, metric_result>>
vars == <<runvars, evalvars, metricvars>>

CONCURRENT_WORKERS == 15
DefaultNumSamples == 100

\* the for loop over the dataset (lines 152-169)
CollectSamples ==
    /\ pc = "collect"
    /\ samples' = collect_samples(dataset, num_samples, task_filter).samples
    /\ task_counts' = collect_samples(dataset, num_samples, task_filter).task_counts
    /\ pc' = "submit"
    /\ UNCHANGED <<dataset, num_samples, task_filter, oracle, queue, running,
                   completed, results, calls, stats, evalvars, metricvars>>

\* executor.submit for every collected sample (line 182)
SubmitAll ==
    /\ pc = "submit"
    /\ queue' = samples
    /\ pc' = "drain"
    /\ UNCHANGED <<dataset, num_samples, task_filter, oracle, samples, task_counts,
                   running, completed, results, calls, stats, evalvars, metricvars>>

\* a pool that starts a thread for every queued task
StartTaskUnbounded ==
    /\ pc \in {"drain", "unwind"}
    /\ queue # <<>>
    /\ running' = running (+) SetToBag({Head(queue)})
    /\ calls' = calls (+) SetToBag({Head(queue).id})
    /\ queue' = Tail(queue)
    /\ UNCHANGED <<dataset, num_samples, task_filter, oracle, pc, samples,
                   task_counts, completed, results, stats, evalvars, metricvars>>

\* a worker thread of the pool takes the oldest queued task and enters
\* process_sample, which calls the oracle
StartTask ==
    /\ pc \in {"drain", "unwind"}
    /\ queue # <<>>
    /\ BagCardinality(running) < CONCURRENT_WORKERS
    /\ running' = running (+) SetToBag({Head(queue)})
    /\ calls' = calls (+) SetToBag({Head(queue).id})
    /\ queue' = Tail(queue)
    /\ UNCHANGED <<dataset, num_samples, task_filter, oracle, pc, samples,
                   task_counts, completed, results, stats, evalvars, metricvars>>

\* a task that calls the oracle a second time when the first call raised
FinishTaskRetry ==
    \E s \in BagToSet(running) :
        /\ oracle[s.id].kind # "hang"
        /\ completed' = Append(completed, process_sample(s, oracle[s.id]))
        /\ running' = running (-) SetToBag({s})
        /\ calls' = IF oracle[s.id].kind = "error"
                    THEN calls (+) SetToBag({s.id}) ELSE calls
        /\ UNCHANGED <<dataset, num_samples, task_filter, oracle, pc, samples,
                       task_counts, queue, results, stats, evalvars, metricvars>>

\* the oracle call of a running task returns or raises, and the task runs to
\* its end: its future is finished
FinishTask ==
    \E s \in BagToSet(running) :
        /\ oracle[s.id].kind # "hang"
        /\ completed' = Append(completed, process_sample(s, oracle[s.id]))
        /\ running' = running (-) SetToBag({s})
        /\ UNCHANGED <<dataset, num_samples, task_filter, oracle, pc, samples,
                       task_counts, queue, results, calls, stats, evalvars, metricvars>>

\* one iteration of the loop over as_completed (lines 184-186):
\* future.result() returns the record or re-raises the task's exception
CollectResult ==
    /\ pc = "drain"
    /\ completed # <<>>
    /\ completed' = Tail(completed)
    /\ IF Head(completed).raised
       THEN pc' = "unwind" /\ UNCHANGED results
       ELSE results' = Append(results, Head(completed).result) /\ UNCHANGED pc
    /\ UNCHANGED <<dataset, num_samples, task_filter, oracle, samples, task_counts,
                   queue, running, calls, stats, evalvars, metricvars>>

\* every future was yielded: the with block ends and the statistics are
\* computed (lines 188-243)
Aggregate ==
    /\ pc = "drain"
    /\ Len(results) = Len(samples)
    /\ stats' = Statistics(results)
    /\ pc' = IF statistics_raised(Statistics(results)) THEN "crashed" ELSE "done"
    /\ UNCHANGED <<dataset, num_samples, task_filter, oracle, samples, task_counts,
                   queue, running, completed, results, calls, evalvars, metricvars>>

\* an exception from future.result() leaves the with block, whose exit waits
\* for every submitted task, and then leaves run_benchmark
Abort ==
    /\ pc = "unwind"
    /\ queue = <<>>
    /\ running = EmptyBag
    /\ pc' = "aborted"
    /\ UNCHANGED <<dataset, num_samples, task_filter, oracle, samples, task_counts,
                   queue, running, completed, results, calls, stats, evalvars, metricvars>>

Next ==
    \/ CollectSamples
    \/ SubmitAll
    \/ StartTask
    \/ FinishTask
    \/ CollectResult
    \/ Aggregate
    \/ Abort

\* no call of evaluate_sample has returned or raised yet
EvalPending == [pending |-> TRUE]

\* no metric function is called directly, and a direct call that has not ended
NoCall == [fn |-> "none"]
MetricPending == [pending |-> TRUE]

\* the state run_benchmark starts from, but for its inputs
Blank ==
    /\ samples = <<>>
    /\ task_counts = EmptyDict
    /\ queue = <<>>
    /\ running = EmptyBag
    /\ completed = <<>>
    /\ results = <<>>
    /\ calls = EmptyBag
    /\ stats = EmptyDict


(***************************************************************************)
(* Inputs: dataset rows and oracle behaviours of the checked runs.         *)
(***************************************************************************)
MaxSamples == 3
PoolSamples == 16

Row(type, answers, bbox) ==
    [id |-> 0, type |-> type, answers |-> answers, bbox |-> bbox,
     bbox_list |-> <<>>, content |-> <<>>]

Returned(text, ttft, end_to_end) ==
    [kind |-> "ok", text |-> text, ttft |-> ttft, end_to_end |-> end_to_end, error |-> ""]

Raised(error, end_to_end) ==
    [kind |-> "error", text |-> <<>>, ttft |-> 0, end_to_end |-> end_to_end, error |-> error]

Hung == [kind |-> "hang", text |-> <<>>, ttft |-> 0, end_to_end |-> 0, error |-> ""]

ReasoningVqa == <<"r","e","a","s","o","n","i","n","g"," ","v","q","a">>
FullPageOcr == <<"f","u","l","l","-","p","a","g","e"," ","o","c","r">>
TheAnswerIs42 == <<"t","h","e"," ","a","n","s","w","e","r"," ","i","s"," ","4","2">>

VqaRow == Row(ReasoningVqa, <<StrAns(<<"4","2">>)>>, <<>>)
OcrRow == Row(FullPageOcr, <<StrAns(<<"a"," ","b">>)>>, <<1, 2, 3, 4>>)
NumericRow == Row(ReasoningVqa, <<NumAns(42)>>, <<>>)

\* a dataset row together with what the oracle does when called for it
RunCases ==
    { [sample |-> VqaRow, outcome |-> Returned(TheAnswerIs42, 1, 3)],
      [sample |-> VqaRow, outcome |-> Returned(<<"n","o">>, 1, 2)],
      [sample |-> OcrRow, outcome |-> Returned(<<"a">>, 1, 1)],
      [sample |-> OcrRow, outcome |-> Raised("ThrottlingException", 2)],
      [sample |-> NumericRow, outcome |-> Returned(<<"4","2">>, 1, 1)] }

\* a run over up to MaxSamples rows with distinct ids, called with the
\* defaults of run_benchmark
Init ==
    /\ \E n \in 0..MaxSamples :
         \E cases \in [1..n -> RunCases] :
            /\ dataset = [i \in 1..n |-> [cases[i].sample EXCEPT !.id = i]]
            /\ oracle = [i \in 1..n |-> cases[i].outcome]
    /\ num_samples = DefaultNumSamples
    /\ task_filter = <<>>
    /\ pc = "collect"
    /\ Blank
    /\ evaluating = EmptyDict
    /\ evaluated = EvalPending
    /\ metric_call = NoCall
    /\ metric_result = MetricPending

Spec == Init /\ [][Next]_vars

\* a run over PoolSamples rows that carry no id (process_sample gives them
\* id 0) and that the oracle treats alike
PoolCases == RunCases

InitPool ==
    /\ \E c \in PoolCases :
            /\ dataset = [i \in 1..PoolSamples |-> c.sample]
            /\ oracle = (0 :> c.outcome)
    /\ num_samples = DefaultNumSamples
    /\ task_filter = <<>>
    /\ pc = "collect"
    /\ Blank
    /\ evaluating = EmptyDict
    /\ evaluated = EvalPending
    /\ metric_call = NoCall
    /\ metric_result = MetricPending

SpecPool == InitPool /\ [][Next]_vars


(***************************************************************************)
(* evaluate_sample called directly on one Sample.                          *)
(***************************************************************************)
EvaluateSample ==
    /\ evaluated = EvalPending
    /\ evaluated' = evaluate_sample(evaluating)
    /\ UNCHANGED <<runvars, evaluating, metricvars>>

NextEval == EvaluateSample

TableParsingEn == <<"t","a","b","l","e"," ","p","a","r","s","i","n","g"," ","e","n">>
HfDataset == <<"h","f","_","d","a","t","a","s","e","t">>

TrTdX == <<"<","t","r",">","<","t","d",">","x","<","/","t","d",">","<","/","t","r",">">>
TrTdY == <<"<","t","r",">","<","t","d",">","y","<","/","t","d",">","<","/","t","r",">">>
TableTr == <<"<","t","a","b","l","e",">","<","t","r",">","<","/","t","r",">","<","/","t","a","b","l","e",">">>
FiveWords == <<"a"," ","b"," ","c"," ","d"," ","e">>

EvalPredictions ==
    { <<>>, <<"a">>, <<"A"," ","b">>, <<"4","2">>, <<"n","o">>, TheAnswerIs42,
      <<"A"," ","b"," ","c"," ","d"," ","e"," ">>,
      <<"a"," ","b"," ","c"," ","d"," "," ","e">>,
      <<"a"," ","b"," ","c"," ","x"," ","y">>,
      <<"v"," ","w"," ","x"," ","y"," ","z"," ","v"," ","w"," ","x"," ","y"," ","z">>,
      TrTdX }
EvalAnswerLists ==
    { <<>>,
      <<StrAns(<<"4","2">>)>>,
      <<NumAns(42)>>,
      <<StrAns(<<"a"," ","b">>)>>,
      <<StrAns(<<"a"," ","b">>), NumAns(42)>>,
      <<StrAns(<<"a"," ","b">>), StrAns(<<"x">>)>>,
      <<StrAns(<<"n","o">>), StrAns(<<"a">>)>>,
      <<StrAns(FiveWords)>>,
      <<StrAns(<<"x">>)>>,
      <<StrAns(TableTr)>>,
      <<StrAns(<<"x"," ","4","2"," ","y">>), NumAns(42)>> }
\* task types in other letter case, with a suffix, or of a second family
ReasoningVqaCapitals == <<"R","e","a","s","o","n","i","n","g"," ","V","Q","A">>
AppAgent == <<"a","p","p"," ","a","g","e","n","t">>
TextTranslationEn == <<"T","e","x","t"," ","T","r","a","n","s","l","a","t","i","o","n"," ","E","N">>
TableParsingEnCapitals == <<"T","a","b","l","e"," ","P","a","r","s","i","n","g"," ","E","N">>
TableParsingCn == <<"t","a","b","l","e"," ","p","a","r","s","i","n","g"," ","c","n">>
TableParsingEnV2 == <<"t","a","b","l","e"," ","p","a","r","s","i","n","g"," ","e","n"," ","v","2">>
TextSpottingEn == <<"t","e","x","t"," ","s","p","o","t","t","i","n","g"," ","e","n">>
TextGrounding == <<"T","e","x","t"," ","G","r","o","u","n","d","i","n","g">>
GuiAgent == <<"G","U","I"," ","A","g","e","n","t">>

EvalTypes ==
    { ReasoningVqa, FullPageOcr, TableParsingEn, HfDataset,
      ReasoningVqaCapitals, AppAgent, TextTranslationEn,
      TableParsingEnCapitals, TableParsingCn, TableParsingEnV2,
      TextSpottingEn, TextGrounding, GuiAgent }
EvalBoxes == {<<>>, <<1, 2, 3, 4>>}
EvalBoxLists == {<<>>, <<<<1, 2, 3, 4>>>>}
EvalContents == {<<>>, TrTdY}

\* a type for each remaining name of the three task families
FamilyTypes ==
    { <<"A","S","C","I","I"," ","A","r","t">>,
      <<"m","a","t","h"," ","q","a"," ","e","n">>,
      <<"S","c","i","e","n","c","e"," ","Q","A">>,
      <<"t","e","x","t"," ","r","e","c","o","g","n","i","t","i","o","n"," ","e","n">>,
      <<"D","o","c","u","m","e","n","t"," ","C","l","a","s","s","i","f","i","c","a","t","i","o","n">>,
      <<"c","o","g","n","i","t","i","o","n"," ","V","Q","A"," ","c","n">>,
      <<"d","i","a","g","r","a","m"," ","Q","A">>,
      <<"H","a","n","d","w","r","i","t","t","e","n"," ","A","n","s","w","e","r"," ","E","x","t","r","a","c","t","i","o","n">>,
      <<"k","e","y"," ","i","n","f","o","r","m","a","t","i","o","n"," ","e","x","t","r","a","c","t","i","o","n"," ","c","n">>,
      <<"F","o","r","m","u","l","a"," ","R","e","c","o","g","n","i","t","i","o","n">>,
      <<"V","Q","A"," ","w","i","t","h"," ","P","o","s","i","t","i","o","n">> }

EvalSamples ==
    [predict : EvalPredictions, answers : EvalAnswerLists, type : EvalTypes,
     bbox : EvalBoxes, bbox_list : EvalBoxLists, content : EvalContents]
    \cup [predict : {TheAnswerIs42, <<"a"," ","b">>},
          answers : {<<StrAns(<<"4","2">>)>>, <<StrAns(<<"a"," ","b">>), NumAns(42)>>},
          type : FamilyTypes, bbox : {<<>>}, bbox_list : {<<>>}, content : {<<>>}]

InitEval ==
    /\ evaluating \in EvalSamples
    /\ evaluated = EvalPending
    /\ metric_call = NoCall
    /\ metric_result = MetricPending
    /\ dataset = <<>>
    /\ oracle = <<>>
    /\ num_samples = DefaultNumSamples
    /\ task_filter = <<>>
    /\ pc = "idle"
    /\ Blank

SpecEval == InitEval /\ [][NextEval]_vars


(***************************************************************************)
(* The metric functions called directly, one call per behaviour.           *)
(***************************************************************************)
Returns(value) == [raised |-> FALSE, value |-> value]

CallTextMatching ==
    /\ metric_call.fn = "evaluate_text_matching"
    /\ metric_result = MetricPending
    /\ metric_result' = evaluate_text_matching(metric_call.prediction, metric_call.answers)
    /\ UNCHANGED <<runvars, evalvars, metric_call>>

CallAnls ==
    /\ metric_call.fn = "calculate_anls"
    /\ metric_result = MetricPending
    /\ metric_result' = Returns(calculate_anls(metric_call.prediction, metric_call.answer))
    /\ UNCHANGED <<runvars, evalvars, metric_call>>

CallFMeasure ==
    /\ metric_call.fn = "calculate_f_measure"
    /\ metric_result = MetricPending
    /\ metric_result' = Returns(calculate_f_measure(metric_call.prediction, metric_call.reference))
    /\ UNCHANGED <<runvars, evalvars, metric_call>>

CallIou ==
    /\ metric_call.fn = "calculate_iou"
    /\ metric_result = MetricPending
    /\ metric_result' = Returns(calculate_iou(metric_call.box1, metric_call.box2))
    /\ UNCHANGED <<runvars, evalvars, metric_call>>

CallLevenshtein ==
    /\ metric_call.fn = "levenshtein_distance"
    /\ metric_result = MetricPending
    /\ metric_result' = Returns(levenshtein_distance(metric_call.s1, metric_call.s2))
    /\ UNCHANGED <<runvars, evalvars, metric_call>>

CallTeds ==
    /\ metric_call.fn = "simple_teds_score"
    /\ metric_result = MetricPending
    /\ metric_result' = Returns(simple_teds_score(metric_call.pred_html, metric_call.gt_html))
    /\ UNCHANGED <<runvars, evalvars, metric_call>>

NextMetric ==
    \/ CallTextMatching
    \/ CallAnls
    \/ CallFMeasure
    \/ CallIou
    \/ CallLevenshtein
    \/ CallTeds

\* the largest box coordinate of the checked calls
MaxCoord == 3

MetricStrings ==
    { <<>>, <<" ">>, <<"a">>, <<"x">>, <<"A"," ","b">>, <<"a"," ","b">>, <<"b"," ","a">>,
      <<" ","a"," ","b","\n">>,
      <<"b"," ","c">>,
      <<"b"," ","c"," ","d"," ","e">>,
      FiveWords,
      <<"A"," ","b"," ","c"," ","d"," ","e"," ">>,
      <<"a"," ","b"," ","c"," ","d"," "," ","e">>,
      <<"a","\n","b"," ","c"," ","d"," ","e">>,
      <<"a"," ","b"," ","c"," ","x"," ","y">>,
      <<"v"," ","w"," ","x"," ","y"," ","z">> }

MetricAnswerLists ==
    { <<>>,
      <<StrAns(<<"a"," ","b">>)>>,
      <<StrAns(<<"x">>), StrAns(<<" ","A"," ","B"," ">>)>>,
      <<StrAns(<<>>)>>,
      <<StrAns(FiveWords), StrAns(<<"b">>)>> }

IntBoxes == [1..4 -> {IntCoord(n) : n \in 0..MaxCoord}]

\* boxes with a coordinate that is a float or is not a number
OtherBoxes ==
    { <<StrCoord, IntCoord(0), IntCoord(1), IntCoord(1)>>,
      <<IntCoord(0), IntCoord(0), IntCoord(1), StrCoord>>,
      <<FloatCoord(3), IntCoord(0), IntCoord(3), IntCoord(1)>>,
      <<FloatCoord(-1), FloatCoord(-3), IntCoord(1), IntCoord(1)>> }

Boxes == IntBoxes \cup OtherBoxes

TedsStrings ==
    { <<>>, <<"x">>, TrTdX, TrTdY, TableTr,
      <<"<","T","R",">","<","t","d"," ","c","l","a","s","s","=","a",">">>,
      <<"<","t","h",">","x","<","/","t","h">>,
      <<"<","t","d",">","<","t","d",">">> }

MetricCalls ==
    [fn : {"evaluate_text_matching"}, prediction : MetricStrings, answers : MetricAnswerLists]
    \cup [fn : {"calculate_anls"}, prediction : MetricStrings, answer : MetricStrings]
    \cup [fn : {"calculate_f_measure"}, prediction : MetricStrings, reference : MetricStrings]
    \cup [fn : {"calculate_iou"}, box1 : Boxes, box2 : Boxes]
    \cup [fn : {"levenshtein_distance"}, s1 : MetricStrings, s2 : MetricStrings]
    \cup [fn : {"simple_teds_score"}, pred_html : TedsStrings, gt_html : TedsStrings]

InitMetric ==
    /\ metric_call \in MetricCalls
    /\ metric_result = MetricPending
    /\ evaluating = EmptyDict
    /\ evaluated = EvalPending
    /\ dataset = <<>>
    /\ oracle = <<>>
    /\ num_samples = DefaultNumSamples
    /\ task_filter = <<>>
    /\ pc = "idle"
    /\ Blank

SpecMetric == InitMetric /\ [][NextMetric]_vars


(***************************************************************************)
(* The collection loop of run_benchmark under the --num_samples and        *)
(* --task_filter arguments of main.                                        *)
(***************************************************************************)
NextCollect == CollectSamples

MaxRows == 3
MaxLimit == 4

CollectTypes == {ReasoningVqa, ReasoningVqaCapitals, FullPageOcr}

\* no filter, filters in either letter case, and one that matches no type
CollectFilters ==
    { <<>>, <<"V","Q","A">>, <<"v","q","a">>, <<"o","c","r">>, <<"z","z">> }

\* a dataset of up to MaxRows rows, a limit from 0 and a task filter
InitCollect ==
    /\ \E n \in 0..MaxRows :
         \E types \in [1..n -> CollectTypes] :
            /\ dataset = [i \in 1..n |->
                             [Row(types[i], <<StrAns(<<"4","2">>)>>, <<>>) EXCEPT !.id = i]]
            /\ oracle = [i \in 1..n |-> Returned(<<"4","2">>, 1, 1)]
    /\ num_samples \in 0..MaxLimit
    /\ task_filter \in CollectFilters
    /\ pc = "collect"
    /\ Blank
    /\ evaluating = EmptyDict
    /\ evaluated = EvalPending
    /\ metric_call = NoCall
    /\ metric_result = MetricPending

SpecCollect == InitCollect /\ [][NextCollect]_vars


(***************************************************************************)
(* The run under fair scheduling: the main thread takes its next step, the *)
(* pool starts a queued task when a worker is free, and a task whose       *)
(* oracle call returns or raises finishes.  A call that hangs never does.  *)
(***************************************************************************)
FairSamples == 2

FairCases == RunCases \cup { [sample |-> VqaRow, outcome |-> Hung] }

InitFair ==
    /\ \E n \in 0..FairSamples :
         \E cases \in [1..n -> FairCases] :
            /\ dataset = [i \in 1..n |-> [cases[i].sample EXCEPT !.id = i]]
            /\ oracle = [i \in 1..n |-> cases[i].outcome]
    /\ num_samples = DefaultNumSamples
    /\ task_filter = <<>>
    /\ pc = "collect"
    /\ Blank
    /\ evaluating = EmptyDict
    /\ evaluated = EvalPending
    /\ metric_call = NoCall
    /\ metric_result = MetricPending

\* the step of FinishTask, told by what it alone does: a task whose oracle
\* call does not hang leaves the running tasks
TaskReturns ==
    \E s \in BagToSet(running) :
        /\ oracle[s.id].kind # "hang"
        /\ running' = running (-) SetToBag({s})

\* the step of Aggregate, told by what it alone does: the main thread goes
\* from the drained pool to the end of the statistics
StatisticsComputed ==
    /\ pc = "drain"
    /\ Len(results) = Len(samples)
    /\ pc' \in {"done", "crashed"}

Fairness ==
    /\ WF_vars(CollectSamples)
    /\ WF_vars(SubmitAll)
    /\ WF_vars(StartTask)
    /\ WF_running(TaskReturns)
    /\ WF_vars(CollectResult)
    /\ WF_pc(StatisticsComputed)
    /\ WF_vars(Abort)

SpecFair == InitFair /\ [][Next]_vars /\ Fairness

\* print(f"API Success Rate: {stats['api_success_rate']:.1f}%") (line 251):
\* the rate rounded to one decimal, ties to even, as a number of tenths
format_1f(x) ==
    LET q == (x.num * 10) \div x.den
        r == (x.num * 10) % x.den
    IN  IF 2 * r > x.den \/ (2 * r = x.den /\ q % 2 = 1) THEN q + 1 ELSE q

(***************************************************************************)
(* Properties.                                                             *)
(***************************************************************************)
ScoreKeys == {"teds_score", "iou_score", "vqa_anls", "bleu_score", "f_measure", "avg_anls"}

\* the statistics key of each positive-only mean and the record field it averages
MeanOf ==
    [avg_teds |-> "teds_score", avg_iou |-> "iou_score", avg_vqa_anls |-> "vqa_anls",
     avg_bleu |-> "bleu_score", avg_f_measure |-> "f_measure", avg_anls |-> "avg_anls"]

StatKeys ==
    {"total_samples", "api_success", "api_failed", "text_correct", "api_success_rate",
     "text_accuracy", "avg_teds", "avg_iou", "avg_vqa_anls", "avg_bleu", "avg_f_measure",
     "avg_anls", "avg_ttft", "avg_e2e", "p50_e2e", "p95_e2e", "p99_e2e"}

Positions(seq) == 1..Len(seq)

\* the sum of f over a finite set of positions
RECURSIVE SumOver(_, _)
SumOver(S, f) ==
    IF S = {} THEN Zero
    ELSE LET i == CHOOSE j \in S : TRUE IN RAdd(f[i], SumOver(S \ {i}, f))

\* the positions of the records that qualify for the mean of field key
Qualifying(key) ==
    {i \in Positions(results) : results[i].api_success /\ RLess(Zero, results[i][key])}

\* C1: a sample whose oracle call failed has a record with api_success false,
\* the error text, text_match false and all six scores 0.
C1_FailedCallHasZeroScores ==
    \A i \in Positions(results) :
        ~results[i].api_success =>
            /\ results[i].error = oracle[results[i].id].error
            /\ ~results[i].text_match
            /\ \A k \in ScoreKeys : results[i][k] = Zero

\* C2: whatever the sample and the oracle's outcome, the per-sample task ends
\* with a record and never with an exception, so no run is aborted by a sample.
C2_TaskNeverRaises ==
    /\ \A i \in Positions(completed) : ~completed[i].raised
    /\ pc \notin {"unwind", "aborted"}

\* C3: evaluate_sample is total: no exception leaves it for a Sample whose
\* predict is a string and whose answers are strings or numbers.
C3_EvaluateSampleTotal ==
    evaluated # EvalPending => ~evaluated.raised

IdsOf(seq) == {seq[i].id : i \in Positions(seq)}
CountId(seq, id) == Cardinality({i \in Positions(seq) : seq[i].id = id})
RunningWith(id) ==
    LET S == {s \in BagToSet(running) : s.id = id}
    IN  IF S = {} THEN 0 ELSE BagCardinality([s \in S |-> running[s]])

\* C5: the oracle is called at most once per collected sample and never again
\* after a failure; results holds records of finished tasks only; and when the
\* run completes the oracle was called exactly once per sample and results
\* holds exactly one record per sample.
C5_OneCallOneRecord ==
    /\ \A id \in BagToSet(calls) : CopiesIn(id, calls) <= CountId(samples, id)
    /\ \A id \in IdsOf(results) :
          CountId(results, id) <= CopiesIn(id, calls) - RunningWith(id)
    /\ pc = "done" =>
          \A id \in IdsOf(samples) \cup IdsOf(results) \cup BagToSet(calls) :
              /\ CopiesIn(id, calls) = CountId(samples, id)
              /\ CountId(results, id) = CountId(samples, id)

\* a completed run of at least two samples with a failed call on record
C5_Witness ==
    /\ pc = "done"
    /\ Len(samples) >= 2
    /\ \E i \in Positions(results) : ~results[i].api_success

\* C6: at most 15 per-sample tasks are executing at any time.
C6_AtMostFifteenRunning == BagCardinality(running) <= 15

\* fifteen tasks are executing while a submitted task still waits in the queue
C6_Witness == BagCardinality(running) = 15 /\ queue # <<>>

\* C7: computing the statistics never raises, and a completed run has every
\* statistics key, with N/A for each mean that has no qualifying record.
C7_FullStatistics ==
    /\ pc # "crashed"
    /\ pc = "done" =>
          /\ DOMAIN stats = StatKeys
          /\ ~statistics_raised(stats)
          /\ \A k \in DOMAIN MeanOf : Qualifying(MeanOf[k]) = {} => stats[k] = NA

\* a completed run of at least two samples in which every oracle call failed
C7_Witness ==
    /\ pc = "done"
    /\ Len(results) >= 2
    /\ \A i \in Positions(results) : ~results[i].api_success

\* C8: each reported mean is the arithmetic mean of the field over exactly
\* the records with api_success true and a value above 0, and is N/A exactly
\* when there is no such record.
C8_PositiveOnlyMean ==
    pc = "done" =>
        \A k \in DOMAIN MeanOf :
            IF Qualifying(MeanOf[k]) = {}
            THEN stats[k] = NA
            ELSE /\ stats[k] # NA
                 /\ stats[k] # ZeroDivisionError
                 /\ RMul(stats[k], Rat(Cardinality(Qualifying(MeanOf[k])), 1))
                      = SumOver(Qualifying(MeanOf[k]),
                                [i \in Positions(results) |-> results[i][MeanOf[k]]])

\* a completed run with a successful call, a record of a failed call whose
\* iou_score is above 0, and a mean that is not a whole number
C8_Witness ==
    /\ pc = "done"
    /\ \E i \in Positions(results) : ~results[i].api_success /\ RLess(Zero, results[i].iou_score)
    /\ \E i \in Positions(results) : results[i].api_success
    /\ stats.avg_f_measure # NA
    /\ stats.avg_f_measure.den > 1

FailedCalls == {i \in Positions(samples) : oracle[samples[i].id].kind = "error"}

\* C9: total_samples = api_success + api_failed, api_failed is the number of
\* samples whose oracle call failed, and api_success_rate is api_success as a
\* percentage of total_samples (0 for a run without samples).
C9_CountsAndRate ==
    pc = "done" =>
        /\ stats.total_samples = stats.api_success + stats.api_failed
        /\ stats.api_failed = Cardinality(FailedCalls)
        /\ stats.api_success_rate =
              IF stats.total_samples = 0 THEN Zero
              ELSE Rat(stats.api_success * 100, stats.total_samples)

\* three samples, one failed oracle call: api_failed is 1 and the rate prints as 66.7
C9_Witness ==
    /\ pc = "done"
    /\ stats.total_samples = 3
    /\ stats.api_failed = 1
    /\ stats.api_success_rate = Rat(200, 3)
    /\ format_1f(stats.api_success_rate) = 667

\* C10: text_correct is the number of records whose text_match is true and
\* text_accuracy is text_correct as a percentage of total_samples, whether or
\* not any oracle call succeeded.
C10_TextCorrectCountsMatches ==
    pc = "done" =>
        LET matches == Cardinality({i \in Positions(results) : results[i].text_match})
        IN  /\ stats.text_correct = matches
            /\ stats.text_accuracy =
                  IF stats.total_samples = 0 THEN Zero
                  ELSE Rat(matches * 100, stats.total_samples)

\* the positions of the records of successful calls
Succeeded == {i \in Positions(results) : results[i].api_success}

\* the k-th smallest (k from 0) end-to-end duration among the successful
\* calls: fewer than k+1 durations lie below it and at least k+1 do not exceed it
OrderStatistic(k) ==
    CHOOSE v \in {results[i].end_to_end : i \in Succeeded} :
        /\ Cardinality({i \in Succeeded : results[i].end_to_end < v}) <= k
        /\ k < Cardinality({i \in Succeeded : results[i].end_to_end <= v})

\* C11: with at least one successful call, P50, P95 and P99 are the elements
\* of the ascending list of the successful calls' durations at the indices
\* floor(n/2), floor(0.95 n) and floor(0.99 n), each index is below n, and
\* P50 <= P95 <= P99; the durations of failed calls are not in the list.
C11_PercentilesByRank ==
    (pc = "done" /\ Succeeded # {}) =>
        LET n == Cardinality(Succeeded)
        IN  /\ (n * 50) \div 100 < n /\ (n * 95) \div 100 < n /\ (n * 99) \div 100 < n
            /\ stats.p50_e2e = OrderStatistic((n * 50) \div 100)
            /\ stats.p95_e2e = OrderStatistic((n * 95) \div 100)
            /\ stats.p99_e2e = OrderStatistic((n * 99) \div 100)
            /\ stats.p50_e2e <= stats.p95_e2e
            /\ stats.p95_e2e <= stats.p99_e2e

\* a completed run with two successful calls of durations 1 and 3 reported
\* out of order, and a failed call of duration 2 that would be the median of
\* all three
C11_Witness ==
    /\ pc = "done"
    /\ Cardinality(Succeeded) = 2
    /\ \E i, j \in Succeeded :
          i < j /\ results[i].end_to_end = 3 /\ results[j].end_to_end = 1
    /\ \E i \in Positions(results) : ~results[i].api_success /\ results[i].end_to_end = 2
    /\ stats.p50_e2e = 3
    /\ stats.p95_e2e = 3

SevenFields == {"text_match", "teds", "iou", "vqa_anls", "bleu", "f_measure", "avg_anls"}

\* C12: for a Sample whose answers list is empty evaluate_sample returns, and
\* the record it returns has all seven fields equal to 0.0.
C12_EmptyAnswersAllZero ==
    (evaluated # EvalPending /\ evaluating.answers = <<>>) =>
        /\ ~evaluated.raised
        /\ DOMAIN evaluated.scores = SevenFields
        /\ \A k \in SevenFields : evaluated.scores[k] = Zero

\* an evaluated table-parsing Sample without answers whose prediction and
\* content hold table tags and that has a bbox and a bbox_list
C12_Witness ==
    /\ evaluated # EvalPending
    /\ evaluating.answers = <<>>
    /\ evaluating.predict = TrTdX
    /\ evaluating.content = TrTdY
    /\ evaluating.type = TableParsingEn
    /\ evaluating.bbox # <<>>
    /\ evaluating.bbox_list # <<>>

InUnit(x) == RLeq(Zero, x) /\ RLeq(x, One)

\* C13: every ScoreRecord evaluate_sample returns has exactly the seven
\* fields; text_match is 0.0 or 1.0 and every other field lies in [0,1].
C13_SevenFieldsInRange ==
    (evaluated # EvalPending /\ ~evaluated.raised) =>
        /\ DOMAIN evaluated.scores = SevenFields
        /\ evaluated.scores.text_match \in {Zero, One}
        /\ \A k \in SevenFields : InUnit(evaluated.scores[k])

\* a returned record with fractional avg_anls, bleu and f_measure
C13_Witness ==
    /\ evaluated # EvalPending
    /\ ~evaluated.raised
    /\ RLess(Zero, evaluated.scores.avg_anls) /\ RLess(evaluated.scores.avg_anls, One)
    /\ RLess(Zero, evaluated.scores.bleu) /\ RLess(evaluated.scores.bleu, One)
    /\ RLess(Zero, evaluated.scores.f_measure) /\ RLess(evaluated.scores.f_measure, One)

\* u occurs in v as a contiguous run of characters
Substring(u, v) ==
    \E i \in 1..(Len(v) + 1) : \E j \in (i - 1)..Len(v) :
        j - i + 1 = Len(u) /\ \A k \in 1..Len(u) : v[i + k - 1] = u[k]

\* lower-cased and trimmed
Normalised(s) == strip(lower(s))

EitherContains(prediction, answer) ==
    \/ Substring(Normalised(answer), Normalised(prediction))
    \/ Substring(Normalised(prediction), Normalised(answer))

\* C15: evaluate_text_matching returns true if and only if some reference
\* answer, lower-cased and trimmed, is a substring of the lower-cased and
\* trimmed prediction or the other way round; an empty answers list gives false.
C15_TextMatchEitherWay ==
    (metric_call.fn = "evaluate_text_matching" /\ metric_result # MetricPending) =>
        /\ ~metric_result.raised
        /\ metric_result.value <=>
              \E i \in Positions(metric_call.answers) :
                  EitherContains(metric_call.prediction, metric_call.answers[i].s)
        /\ metric_call.answers = <<>> => ~metric_result.value

\* a call that returned true for a prediction that only matches after
\* normalisation, and only as a part of the second answer
C15_Witness ==
    /\ metric_call.fn = "evaluate_text_matching"
    /\ metric_result # MetricPending
    /\ metric_result.value
    /\ Len(metric_call.answers) = 2
    /\ ~EitherContains(metric_call.prediction, metric_call.answers[1].s)
    /\ ~Substring(Normalised(metric_call.answers[2].s), Normalised(metric_call.prediction))
    /\ \A i \in Positions(metric_call.answers) :
          /\ ~Substring(metric_call.answers[i].s, metric_call.prediction)
          /\ ~Substring(metric_call.prediction, metric_call.answers[i].s)

\* the same words in the same order, whatever the letter case and the
\* whitespace around and between them
EqualUpToCaseAndSpace(p, a) == split(lower(p)) = split(lower(a))

\* C16 as stated: ANLS(p, a) lies in [0,1], and is 1.0 whenever a has at least
\* 5 words and p equals a up to letter case and whitespace.
C16_AnlsOneUpToCaseAndSpace ==
    (metric_call.fn = "calculate_anls" /\ metric_result # MetricPending) =>
        /\ InUnit(metric_result.value)
        /\ (/\ Len(split(metric_call.answer)) >= 5
            /\ EqualUpToCaseAndSpace(metric_call.prediction, metric_call.answer))
           => metric_result.value = One

\* lower-cased, trimmed at both ends, newlines replaced by spaces
AnlsNormalised(s) == replace_newline(strip(lower(s)))

\* C16 amended: ANLS(p, a) lies in [0,1], and is 1.0 whenever a has at least
\* 5 words and p equals a after lower-casing, trimming leading and trailing
\* whitespace and replacing newlines by spaces.
C16_AnlsOneAfterNormalisation ==
    (metric_call.fn = "calculate_anls" /\ metric_result # MetricPending) =>
        /\ InUnit(metric_result.value)
        /\ (/\ Len(split(metric_call.answer)) >= 5
            /\ AnlsNormalised(metric_call.prediction) = AnlsNormalised(metric_call.answer))
           => metric_result.value = One

\* a call that returned 1.0 for a five-word reference and a prediction that
\* differs from it in letter case, a trailing space or a newline
C16_Witness ==
    /\ metric_call.fn = "calculate_anls"
    /\ metric_result # MetricPending
    /\ Len(split(metric_call.answer)) >= 5
    /\ metric_call.prediction # metric_call.answer
    /\ AnlsNormalised(metric_call.prediction) = AnlsNormalised(metric_call.answer)
    /\ metric_result.value = One

\* the ANLS of the prediction against the i-th answer as a string, with a
\* value below 0.5 truncated to 0
TruncatedAnls(sample, i) ==
    LET anls == calculate_anls(sample.predict, str_of(sample.answers[i]))
    IN  IF RLeq(VqaThreshold, anls) THEN anls ELSE Zero

\* C17: for a "reasoning vqa" Sample with answers, vqa_anls is the maximum over
\* all answers (numbers as their decimal strings) of the ANLS truncated to 0
\* below 0.5, so it is 0 or at least 0.5; with answers ["42"] and prediction
\* "the answer is 42", vqa_anls is at least 0.5 and text_match is true.
C17_VqaMaxOfTruncatedAnls ==
    (/\ evaluated # EvalPending
     /\ ~evaluated.raised
     /\ evaluating.type = ReasoningVqa
     /\ evaluating.answers # <<>>) =>
        /\ \A i \in Positions(evaluating.answers) :
              RLeq(TruncatedAnls(evaluating, i), evaluated.scores.vqa_anls)
        /\ \/ evaluated.scores.vqa_anls = Zero
           \/ \E i \in Positions(evaluating.answers) :
                 TruncatedAnls(evaluating, i) = evaluated.scores.vqa_anls
        /\ evaluated.scores.vqa_anls = Zero \/ RLeq(VqaThreshold, evaluated.scores.vqa_anls)
        /\ (evaluating.predict = TheAnswerIs42 /\ evaluating.answers = <<StrAns(<<"4","2">>)>>)
           => /\ RLeq(VqaThreshold, evaluated.scores.vqa_anls)
              /\ evaluated.scores.text_match = One

\* the evaluated Sample of type "reasoning vqa" with answers ["42"] and
\* prediction "the answer is 42"
C17_Witness ==
    /\ evaluated # EvalPending
    /\ ~evaluated.raised
    /\ evaluating.type = ReasoningVqa
    /\ evaluating.predict = TheAnswerIs42
    /\ evaluating.answers = <<StrAns(<<"4","2">>)>>
    /\ evaluated.scores.vqa_anls = One

\* the whitespace tokens of s, lower-cased: its maximal runs of characters
\* that are not whitespace
Tokens(s) ==
    {SubSeq(lower(s), i, j) : <<i, j>> \in
        {ij \in (1..Len(s)) \X (1..Len(s)) :
            /\ ij[1] <= ij[2]
            /\ \A k \in ij[1]..ij[2] : ~IsSpace(s[k])
            /\ ij[1] = 1 \/ IsSpace(s[ij[1] - 1])
            /\ ij[2] = Len(s) \/ IsSpace(s[ij[2] + 1])}}

\* C18: calculate_f_measure returns and never divides by zero; the value is
\* 1.0 when neither side has a token, 0.0 when exactly one side has none or
\* the token sets are disjoint, and otherwise the harmonic mean of
\* precision |P n R|/|P| and recall |P n R|/|R|, which is 2|P n R|/(|P|+|R|);
\* F(p, p) is 1.0 for every non-empty p.
C18_FMeasureHarmonicMean ==
    (metric_call.fn = "calculate_f_measure" /\ metric_result # MetricPending) =>
        LET P == Tokens(metric_call.prediction)
            R == Tokens(metric_call.reference)
        IN  /\ ~metric_result.raised
            /\ (P = {} /\ R = {}) => metric_result.value = One
            /\ ((P = {}) # (R = {})) => metric_result.value = Zero
            /\ P \cap R = {} /\ P # {} /\ R # {} => metric_result.value = Zero
            /\ (P # {} /\ R # {}) =>
                  metric_result.value =
                      Rat(2 * Cardinality(P \cap R), Cardinality(P) + Cardinality(R))
            /\ (metric_call.prediction = metric_call.reference
                /\ metric_call.prediction # <<>>) => metric_result.value = One

\* a call on "a b c d e" and "a b c x y" in either order, which share three
\* of five tokens each: the value is 3/5
C18_Witness ==
    /\ metric_call.fn = "calculate_f_measure"
    /\ metric_result # MetricPending
    /\ Cardinality(Tokens(metric_call.prediction)) = 5
    /\ Cardinality(Tokens(metric_call.reference)) = 5
    /\ Cardinality(Tokens(metric_call.prediction) \cap Tokens(metric_call.reference)) = 3
    /\ metric_result.value = Rat(3, 5)

\* the unit cells a box with integer corners covers
Cells(box) ==
    {c \in (box[1].n..(box[3].n - 1)) \X (box[2].n..(box[4].n - 1)) : TRUE}

\* positive width and height
NonDegenerate(box) == box[1].n < box[3].n /\ box[2].n < box[4].n

\* C20: for boxes with integer coordinates calculate_iou gives the same value
\* with its arguments exchanged, 1.0 for a non-degenerate box against itself,
\* and 0.0 for two boxes that share no area.
C20_IouSymmetricUnitZero ==
    (/\ metric_call.fn = "calculate_iou"
     /\ metric_result # MetricPending
     /\ metric_call.box1 \in IntBoxes
     /\ metric_call.box2 \in IntBoxes) =>
        /\ metric_result.value = calculate_iou(metric_call.box2, metric_call.box1)
        /\ (metric_call.box1 = metric_call.box2 /\ NonDegenerate(metric_call.box1))
           => metric_result.value = One
        /\ Cells(metric_call.box1) \cap Cells(metric_call.box2) = {}
           => metric_result.value = Zero

\* a call on two different non-degenerate boxes of different area that
\* overlap in part
C20_Witness ==
    /\ metric_call.fn = "calculate_iou"
    /\ metric_result # MetricPending
    /\ metric_call.box1 \in IntBoxes
    /\ metric_call.box2 \in IntBoxes
    /\ NonDegenerate(metric_call.box1) /\ NonDegenerate(metric_call.box2)
    /\ Cardinality(Cells(metric_call.box1)) # Cardinality(Cells(metric_call.box2))
    /\ ~(Cells(metric_call.box1) \subseteq Cells(metric_call.box2))
    /\ ~(Cells(metric_call.box2) \subseteq Cells(metric_call.box1))
    /\ RLess(Zero, metric_result.value) /\ RLess(metric_result.value, One)

\* C19: for a Sample of type "table parsing en" with answers, whose predict
\* and content carry the same, non-empty sequence of HTML table tags,
\* evaluate_sample returns teds = 1.0.
C19_TedsAgainstContent ==
    (/\ evaluated # EvalPending
     /\ ~evaluated.raised
     /\ evaluating.type = TableParsingEn
     /\ evaluating.answers # <<>>
     /\ extract_table_structure(evaluating.predict) # <<>>
     /\ extract_table_structure(evaluating.predict)
           = extract_table_structure(evaluating.content)) =>
        evaluated.scores.teds = One

\* C21: levenshtein_distance(s, s) is 0, levenshtein_distance(a, b) equals
\* levenshtein_distance(b, a) and is at most len(a) + len(b); the strings are
\* compared as given, so two strings that differ at all, be it in letter case
\* or whitespace only, are at a distance above 0.
C21_LevenshteinLaws ==
    (metric_call.fn = "levenshtein_distance" /\ metric_result # MetricPending) =>
        /\ metric_call.s1 = metric_call.s2 => metric_result.value = 0
        /\ metric_result.value = levenshtein_distance(metric_call.s2, metric_call.s1)
        /\ metric_result.value <= Len(metric_call.s1) + Len(metric_call.s2)
        /\ metric_call.s1 # metric_call.s2 => metric_result.value > 0

\* a call on two different strings of the same length that are equal after
\* lower-casing: the distance is 1
C21_Witness ==
    /\ metric_call.fn = "levenshtein_distance"
    /\ metric_result # MetricPending
    /\ metric_call.s1 # metric_call.s2
    /\ lower(metric_call.s1) = lower(metric_call.s2)
    /\ metric_result.value = 1

TedsDone == metric_call.fn = "simple_teds_score" /\ metric_result # MetricPending

PredTags == extract_table_structure(metric_call.pred_html)

GtTags == extract_table_structure(metric_call.gt_html)

Jaccard(A, B) == Rat(Cardinality(A \cap B), Cardinality(A \cup B))

\* C22: simple_teds_score returns 1.0 when the two tag sequences are equal,
\* 0.0 whenever the reference has no table tag, for every prediction, one
\* without table tags included, and the Jaccard overlap of the two tag sets
\* otherwise.
C22_TedsEmptyReferenceZero ==
    TedsDone =>
        /\ PredTags = GtTags => metric_result.value = One
        /\ GtTags = <<>> => metric_result.value = Zero
        /\ (PredTags # GtTags /\ GtTags # <<>>) =>
               metric_result.value = Jaccard(set_of(PredTags), set_of(GtTags))

\* C22 amended: simple_teds_score returns 1.0 when the two tag sequences are
\* equal (two texts without table tags included), 0.0 when the reference has
\* no table tag and the prediction has one, and the Jaccard overlap of the two
\* tag sets otherwise.
C22_TedsEqualityFirst ==
    TedsDone =>
        /\ PredTags = GtTags => metric_result.value = One
        /\ (GtTags = <<>> /\ PredTags # <<>>) => metric_result.value = Zero
        /\ (PredTags # GtTags /\ GtTags # <<>>) =>
               metric_result.value = Jaccard(set_of(PredTags), set_of(GtTags))

\* two different texts, neither with a table tag: the score is 1.0
C22_Witness ==
    /\ TedsDone
    /\ metric_call.pred_html # metric_call.gt_html
    /\ PredTags = <<>>
    /\ GtTags = <<>>
    /\ metric_result.value = One

AnlsDone == metric_call.fn = "calculate_anls" /\ metric_result # MetricPending

\* the number of whitespace-separated words of the normalised reference
AnswerWords == Len(split(AnlsNormalised(metric_call.answer)))

\* 1 - distance / max(len(prediction), len(answer)) on the normalised strings
SimilarityRatio ==
    LET p == AnlsNormalised(metric_call.prediction)
        a == AnlsNormalised(metric_call.answer)
    IN  RSub(One, Rat(levenshtein_distance(p, a), Max2(Len(p), Len(a))))

\* C23: for a reference of fewer than 5 words calculate_anls is 1.0 when the
\* normalised reference is contained in the normalised prediction and 0.0
\* otherwise; for a reference of 5 words or more it is
\* 1 - distance / max(len(prediction), len(answer)), floored at 0.0.
C23_AnlsShortContainmentLongRatio ==
    AnlsDone =>
        /\ AnswerWords < 5 =>
              metric_result.value =
                  (IF Substring(AnlsNormalised(metric_call.answer),
                                AnlsNormalised(metric_call.prediction))
                   THEN One ELSE Zero)
        /\ AnswerWords >= 5 =>
              metric_result.value =
                  (IF RLess(SimilarityRatio, Zero) THEN Zero ELSE SimilarityRatio)

\* a reference of exactly five words that the prediction does not contain,
\* scored strictly between 0 and 1
C23_Witness ==
    /\ AnlsDone
    /\ AnswerWords = 5
    /\ RLess(Zero, metric_result.value)
    /\ RLess(metric_result.value, One)

IouDone == metric_call.fn = "calculate_iou" /\ metric_result # MetricPending

\* (x2 - x1) * (y2 - y1), negative for a box inverted on one axis
SignedArea(box) == (box[3].n - box[1].n) * (box[4].n - box[2].n)

\* area of box1 + area of box2 - area of the intersection
UnionArea ==
    SignedArea(metric_call.box1) + SignedArea(metric_call.box2)
        - Cardinality(Cells(metric_call.box1) \cap Cells(metric_call.box2))

NonNumeric(box) == \E i \in 1..4 : box[i].kind = "str"

\* C24: calculate_iou returns without raising; for two boxes of four integer
\* coordinates, zero-area and inverted ones included, the result lies in
\* [0,1] and is 0.0 when the union area is 0; a coordinate that is not a
\* number gives 0.0.
C24_IouTotalAndBounded ==
    IouDone =>
        /\ ~metric_result.raised
        /\ (metric_call.box1 \in IntBoxes /\ metric_call.box2 \in IntBoxes) =>
              /\ InUnit(metric_result.value)
              /\ UnionArea = 0 => metric_result.value = Zero
        /\ (NonNumeric(metric_call.box1) \/ NonNumeric(metric_call.box2)) =>
              metric_result.value = Zero

\* two integer boxes of non-zero area, one inverted on one axis, whose areas
\* cancel: the union area is 0 and the result 0.0
C24_Witness ==
    /\ IouDone
    /\ metric_call.box1 \in IntBoxes
    /\ metric_call.box2 \in IntBoxes
    /\ SignedArea(metric_call.box1) > 0
    /\ SignedArea(metric_call.box2) < 0
    /\ UnionArea = 0
    /\ metric_result.value = Zero

\* evaluate_sample returned a record for a Sample with answers
EvalReturned ==
    /\ evaluated # EvalPending
    /\ ~evaluated.raised
    /\ evaluating.answers # <<>>

\* some name of the family is a substring of the lower-cased task type
InFamily(tasks, sample_type) ==
    \E i \in 1..Len(tasks) : Substring(tasks[i], lower(sample_type))

\* the largest truncated ANLS of the prediction over all answers
BestTruncatedAnls(sample) ==
    LET S == {TruncatedAnls(sample, i) : i \in Positions(sample.answers)}
    IN  CHOOSE v \in S : \A w \in S : RLeq(w, v)

\* C25: for a Sample with answers, vqa_anls is the VQA score of the prediction
\* against all answers when the lower-cased task type contains one of the
\* nine VQA-family names, and 0.0 for every other task type.
C25_VqaOnlyForVqaFamily ==
    EvalReturned =>
        evaluated.scores.vqa_anls =
            (IF InFamily(vqa_tasks, evaluating.type)
             THEN BestTruncatedAnls(evaluating) ELSE Zero)

\* a Sample of type "Reasoning VQA", in capitals, scored above 0
C25_Witness ==
    /\ EvalReturned
    /\ evaluating.type = ReasoningVqaCapitals
    /\ RLess(Zero, evaluated.scores.vqa_anls)

\* the Sample under evaluation with another list of answers
WithAnswers(answers) == [evaluating EXCEPT !.answers = answers]

\* C26: bleu and f_measure are above 0 only for a task type that contains an
\* OCR-family name, and two Samples that differ only in their answers beyond
\* the first get the same bleu and the same f_measure.
C26_BleuFMeasureFirstAnswerOnly ==
    (evaluated # EvalPending /\ ~evaluated.raised) =>
        /\ ~InFamily(ocr_tasks, evaluating.type) =>
              /\ evaluated.scores.bleu = Zero
              /\ evaluated.scores.f_measure = Zero
        /\ \A answers \in EvalAnswerLists :
              (/\ evaluating.answers # <<>>
               /\ answers # <<>>
               /\ answers[1] = evaluating.answers[1]
               /\ ~evaluate_sample(WithAnswers(answers)).raised) =>
                  /\ evaluate_sample(WithAnswers(answers)).scores.bleu
                        = evaluated.scores.bleu
                  /\ evaluate_sample(WithAnswers(answers)).scores.f_measure
                        = evaluated.scores.f_measure

\* an OCR-family Sample with bleu and f_measure above 0 whose second answer
\* shares no word with the prediction
C26_Witness ==
    /\ evaluated # EvalPending
    /\ ~evaluated.raised
    /\ InFamily(ocr_tasks, evaluating.type)
    /\ Len(evaluating.answers) = 2
    /\ evaluating.answers[2].kind = "str"
    /\ calculate_bleu_score(evaluating.predict, evaluating.answers[2].s) = Zero
    /\ RLess(Zero, evaluated.scores.bleu)
    /\ RLess(Zero, evaluated.scores.f_measure)

\* C27: teds is computed only when the task type is exactly "table parsing en"
\* or "table parsing cn"; for every other task type, one that differs in
\* letter case or merely contains such a name included, teds is 0.0.
C27_TedsOnlyForExactTableTypes ==
    (evaluated # EvalPending /\ ~evaluated.raised) =>
        IF evaluating.type \in {TableParsingEn, TableParsingCn}
           /\ evaluating.answers # <<>>
           /\ str_of(evaluating.answers[1]) # <<>>
        THEN evaluated.scores.teds
                = simple_teds_score(evaluating.predict, str_of(evaluating.answers[1]))
        ELSE evaluated.scores.teds = Zero

\* a Sample of type "Table Parsing EN" or "table parsing en v2" whose teds is
\* 0.0 although the prediction and the first answer share table tags
C27_Witness ==
    /\ evaluated # EvalPending
    /\ ~evaluated.raised
    /\ evaluating.type \in {TableParsingEnCapitals, TableParsingEnV2}
    /\ evaluating.answers # <<>>
    /\ RLess(Zero, simple_teds_score(evaluating.predict, str_of(evaluating.answers[1])))
    /\ evaluated.scores.teds = Zero

\* C28: for a Sample with answers, iou equals text_match whenever the task
\* type contains a positioning-family name or "agent", or a bbox or a
\* bbox_list is present, and is 0.0 in every other case; the value never
\* comes from the boxes.
C28_IouIsTextMatchProxy ==
    EvalReturned =>
        evaluated.scores.iou =
            (IF \/ InFamily(positioning_tasks, evaluating.type)
                \/ Substring(agent, lower(evaluating.type))
                \/ evaluating.bbox # <<>>
                \/ evaluating.bbox_list # <<>>
             THEN evaluated.scores.text_match ELSE Zero)

\* a Sample of a type outside the positioning and agent families that
\* carries a bbox and whose answers match: iou is 1.0
C28_Witness ==
    /\ EvalReturned
    /\ ~InFamily(positioning_tasks, evaluating.type)
    /\ ~Substring(agent, lower(evaluating.type))
    /\ evaluating.bbox # <<>>
    /\ evaluating.bbox_list = <<>>
    /\ evaluated.scores.text_match = One
    /\ evaluated.scores.iou = One

\* the collection loop has run
Collected == pc = "submit"

\* the sum of the counts of a dict
RECURSIVE SumCounts(_)
SumCounts(counts) ==
    IF DOMAIN counts = {} THEN 0
    ELSE LET k == CHOOSE key \in DOMAIN counts : TRUE
         IN  counts[k] + SumCounts([key \in DOMAIN counts \ {k} |-> counts[key]])

\* C29: the collection loop never collects more than num_samples samples,
\* for every limit from 0 and every dataset; with a task filter every
\* collected sample's type contains it, letter case aside; the collected
\* samples are in dataset order; the task counts sum to their number.
C29_CollectWithinLimit ==
    Collected =>
        /\ Len(samples) <= num_samples
        /\ task_filter # <<>> =>
              \A i \in Positions(samples) :
                  Substring(lower(task_filter), lower(samples[i].type))
        /\ \A i \in Positions(samples) : samples[i] = dataset[samples[i].id]
        /\ \A i, j \in Positions(samples) : i < j => samples[i].id < samples[j].id
        /\ SumCounts(task_counts) = Len(samples)

\* some oracle call of the run never returns
SomeCallHangs == \E i \in DOMAIN oracle : oracle[i].kind = "hang"

\* run_benchmark has ended, normally or with an exception
RunOver == pc \in {"done", "crashed", "aborted"}

\* C30: when every oracle call returns or raises, a fairly scheduled run
\* eventually ends with every collected sample processed and the statistics
\* computed; when a single oracle call never returns, the run never ends.
C30_TerminatesUnlessCallHangs ==
    /\ ~SomeCallHangs =>
          <>(/\ pc = "done"
             /\ Len(results) = Len(samples)
             /\ stats # EmptyDict)
    /\ SomeCallHangs => [](~RunOver)


====
